---- MODULE Spec2Model ----
(***************************************************************************)
(* A1Token: the ink! fungible-token contract of src/lib.rs.                *)
(*                                                                         *)
(* The contract's storage (total_supply, balances, allowances,             *)
(* mint_authority) is the state; every #[ink(message)] is one action that  *)
(* runs the whole message.  Amounts are u32.  TLC's integers stop at       *)
(* 2^31 - 1, so a number is kept as two 16-bit limbs [hi, lo] with value   *)
(* hi * 2^16 + lo; a u32 is a number with hi < 2^16.                       *)
(***************************************************************************)
EXTENDS Integers, Sequences, FiniteSets, TLC

-----------------------------------------------------------------------------
(* Bounds of the model *)

\* number of messages sent to the contract after construction
MaxCalls == 2

\* the small amounts 0..MaxAmount are the inputs, next to u32::MAX
MaxAmount == 1

-----------------------------------------------------------------------------
(* Numbers *)

Limb == 65536

Num(h, l) == [hi |-> h, lo |-> l]

Zero == Num(0, 0)

U32Max == Num(Limb - 1, Limb - 1)

\* a + b over the mathematical integers
Plus(a, b) ==
    LET s == a.lo + b.lo
    IN  Num(a.hi + b.hi + (s \div Limb), s % Limb)

\* a < b, a <= b over the mathematical integers
Less(a, b) == a.hi < b.hi \/ (a.hi = b.hi /\ a.lo < b.lo)

Leq(a, b) == ~Less(b, a)

\* a - b over the mathematical integers, for b <= a
Minus(a, b) ==
    LET d == a.lo - b.lo
    IN  IF d >= 0 THEN Num(a.hi - b.hi, d)
                  ELSE Num(a.hi - b.hi - 1, d + Limb)

FitsU32(a) == a.hi < Limb

\* the value modulo 2^32
WrapU32(a) == Num(a.hi % Limb, a.lo)

-----------------------------------------------------------------------------
(* Inputs *)

Accounts == {"alice", "bob", "jake"}

NoAccount == "none"

Amounts == {Num(0, n) : n \in 0..MaxAmount} \cup {U32Max}

Errors == {"InsufficientBalance", "InsufficientAllowance", "Unauthorized"}

-----------------------------------------------------------------------------
(* State *)

VARIABLES
    total_supply,     \* u32
    balances,         \* Mapping<AccountId, u32>: a function on the stored keys
    allowances,       \* Mapping<(AccountId, AccountId), u32>
    mint_authority,   \* AccountId
    overflow_checks,  \* the build: TRUE traps on u32 overflow, FALSE wraps
    call,             \* the call that has just run: message, caller,
                      \* arguments and result
    events,           \* the events that call emitted
    calls,            \* number of messages so far
    approved,         \* history: the amount of owner's latest approve of spender
    spent,            \* history: moved by spender's transfer_from since then
    handed_over,      \* history: accounts whose transfer_authority succeeded
    dormant           \* history: mint_authority was set by transfer_authority
                      \* and has issued no call since

vars == <<total_supply, balances, allowances, mint_authority, overflow_checks,
          call, events, calls, approved, spent, handed_over, dormant>>

storage == <<total_supply, balances, allowances, mint_authority>>

\* the contract's storage as one value
A1Token ==
    [total_supply |-> total_supply, balances |-> balances,
     allowances |-> allowances, mint_authority |-> mint_authority]

\* Mapping::insert
insert(m, k, v) == [x \in (DOMAIN m) \cup {k} |-> IF x = k THEN v ELSE m[x]]

Transfer(sender, recipient, amount) ==
    [event |-> "Transfer", sender |-> sender, recipient |-> recipient,
     amount |-> amount]

Approval(owner, spender, amount) ==
    [event |-> "Approval", owner |-> owner, spender |-> spender,
     amount |-> amount]

-----------------------------------------------------------------------------
(* u32 arithmetic of the build *)

\* a + b on u32: traps under overflow checks, wraps otherwise
add_u32(a, b) ==
    LET s == Plus(a, b)
    IN  [trap |-> overflow_checks /\ ~FitsU32(s), value |-> WrapU32(s)]

\* a - b on u32: traps under overflow checks, wraps otherwise
sub_u32(a, b) ==
    IF Less(a, b)
    THEN [trap |-> overflow_checks,
          value |-> Minus(Plus(a, Num(Limb, 0)), b)]
    ELSE [trap |-> FALSE, value |-> Minus(a, b)]

-----------------------------------------------------------------------------
(* Outcomes of a message on storage `self` *)

Ok(self, emitted) == [self |-> self, result |-> "Ok", events |-> emitted]

Err(self, error) == [self |-> self, result |-> error, events |-> <<>>]

\* a panic: the runtime reverts the call
Trap(self) == [self |-> self, result |-> "Trap", events |-> <<>>]

-----------------------------------------------------------------------------
(* Messages *)

balance_of(self, account) ==
    IF account \in DOMAIN self.balances THEN self.balances[account] ELSE Zero

allowance(self, owner, spender) ==
    IF <<owner, spender>> \in DOMAIN self.allowances
    THEN self.allowances[<<owner, spender>>] ELSE Zero

\* transfer_from_to, were it to emit no event for an amount of 0
transfer_from_to_SilentOnZero(self, sender, recipient, amount) ==
    LET sender_balance == balance_of(self, sender)
    IN  IF Less(sender_balance, amount)
        THEN Err(self, "InsufficientBalance")
        ELSE LET debit == sub_u32(sender_balance, amount)
                 debited == [self EXCEPT
                     !.balances = insert(self.balances, sender, debit.value)]
                 recipient_balance == balance_of(debited, recipient)
                 credit == add_u32(recipient_balance, amount)
                 credited == [debited EXCEPT
                     !.balances = insert(debited.balances, recipient,
                                         credit.value)]
             IN  IF debit.trap \/ credit.trap
                 THEN Trap(self)
                 ELSE IF amount = Zero
                 THEN Ok(credited, <<>>)
                 ELSE Ok(credited, <<Transfer(sender, recipient, amount)>>)

\* transfer_from_to, were it to read the recipient's balance before the debit
transfer_from_to_StaleRecipient(self, sender, recipient, amount) ==
    LET sender_balance == balance_of(self, sender)
        recipient_balance == balance_of(self, recipient)
    IN  IF Less(sender_balance, amount)
        THEN Err(self, "InsufficientBalance")
        ELSE LET debit == sub_u32(sender_balance, amount)
                 debited == [self EXCEPT
                     !.balances = insert(self.balances, sender, debit.value)]
                 credit == add_u32(recipient_balance, amount)
                 credited == [debited EXCEPT
                     !.balances = insert(debited.balances, recipient,
                                         credit.value)]
             IN  IF debit.trap \/ credit.trap
                 THEN Trap(self)
                 ELSE Ok(credited, <<Transfer(sender, recipient, amount)>>)

transfer_from_to(self, sender, recipient, amount) ==
    LET sender_balance == balance_of(self, sender)
    IN  IF Less(sender_balance, amount)
        THEN Err(self, "InsufficientBalance")
        ELSE LET debit == sub_u32(sender_balance, amount)
                 debited == [self EXCEPT
                     !.balances = insert(self.balances, sender, debit.value)]
                 recipient_balance == balance_of(debited, recipient)
                 credit == add_u32(recipient_balance, amount)
                 credited == [debited EXCEPT
                     !.balances = insert(debited.balances, recipient,
                                         credit.value)]
             IN  IF debit.trap \/ credit.trap
                 THEN Trap(self)
                 ELSE Ok(credited, <<Transfer(sender, recipient, amount)>>)

transfer(self, caller, recipient, amount) ==
    transfer_from_to(self, caller, recipient, amount)

\* approve, were it to add the amount to the stored allowance
approve_Accumulates(self, caller, spender, amount) ==
    LET owner == caller
        total == add_u32(allowance(self, owner, spender), amount)
    IN  IF total.trap
        THEN Trap(self)
        ELSE Ok([self EXCEPT
                    !.allowances = insert(self.allowances, <<owner, spender>>,
                                          total.value)],
                <<Approval(owner, spender, amount)>>)

approve(self, caller, spender, amount) ==
    LET owner == caller
    IN  Ok([self EXCEPT
               !.allowances = insert(self.allowances, <<owner, spender>>,
                                     amount)],
           <<Approval(owner, spender, amount)>>)

\* transfer_from, were it to charge the allowance before moving the balance
transfer_from_ChargesFirst(self, caller, sender, recipient, amount) ==
    LET allowed == allowance(self, sender, caller)
    IN  IF Less(allowed, amount)
        THEN Err(self, "InsufficientAllowance")
        ELSE LET rest == sub_u32(allowed, amount)
                 charged == [self EXCEPT !.allowances =
                     insert(self.allowances, <<sender, caller>>, rest.value)]
                 moved == transfer_from_to(charged, sender, recipient, amount)
             IN  IF rest.trap \/ moved.result = "Trap"
                 THEN Trap(self)
                 ELSE moved

\* transfer_from, were it to check the balance before the allowance
transfer_from_BalanceFirst(self, caller, sender, recipient, amount) ==
    LET allowed == allowance(self, sender, caller)
    IN  IF Less(balance_of(self, sender), amount)
        THEN Err(self, "InsufficientBalance")
        ELSE IF Less(allowed, amount)
        THEN Err(self, "InsufficientAllowance")
        ELSE LET moved == transfer_from_to(self, sender, recipient, amount)
                 rest == sub_u32(allowed, amount)
             IN  IF moved.result # "Ok"
                 THEN [moved EXCEPT !.self = self]
                 ELSE [moved EXCEPT !.self.allowances =
                          insert(moved.self.allowances, <<sender, caller>>,
                                 rest.value)]

\* transfer_from, were it to skip the allowance check
transfer_from_Unchecked(self, caller, sender, recipient, amount) ==
    LET allowed == allowance(self, sender, caller)
        moved == transfer_from_to(self, sender, recipient, amount)
        rest == sub_u32(allowed, amount)
    IN  IF moved.result # "Ok"
        THEN [moved EXCEPT !.self = self]
        ELSE IF rest.trap
        THEN Trap(self)
        ELSE [moved EXCEPT !.self.allowances =
                 insert(moved.self.allowances, <<sender, caller>>,
                        rest.value)]

transfer_from(self, caller, sender, recipient, amount) ==
    LET allowed == allowance(self, sender, caller)
    IN  IF Less(allowed, amount)
        THEN Err(self, "InsufficientAllowance")
        ELSE LET moved == transfer_from_to(self, sender, recipient, amount)
                 rest == sub_u32(allowed, amount)
             IN  IF moved.result # "Ok"
                 THEN [moved EXCEPT !.self = self]
                 ELSE IF rest.trap
                 THEN Trap(self)
                 ELSE [moved EXCEPT !.self.allowances =
                          insert(moved.self.allowances, <<sender, caller>>,
                                 rest.value)]

\* mint, were it to store the new balance in a fresh map
mint_FreshBalances(self, caller, amount) ==
    LET sender == caller
    IN  IF sender # self.mint_authority
        THEN Err(self, "Unauthorized")
        ELSE LET sender_balance == balance_of(self, sender)
                 credit == add_u32(sender_balance, amount)
                 supply == add_u32(self.total_supply, amount)
             IN  IF credit.trap \/ supply.trap
                 THEN Trap(self)
                 ELSE Ok([self EXCEPT
                            !.balances = insert(<<>>, sender, credit.value),
                            !.total_supply = supply.value],
                         <<>>)

mint(self, caller, amount) ==
    LET sender == caller
    IN  IF sender # self.mint_authority
        THEN Err(self, "Unauthorized")
        ELSE LET sender_balance == balance_of(self, sender)
                 credit == add_u32(sender_balance, amount)
                 supply == add_u32(self.total_supply, amount)
             IN  IF credit.trap \/ supply.trap
                 THEN Trap(self)
                 ELSE Ok([self EXCEPT
                            !.balances = insert(self.balances, sender,
                                                credit.value),
                            !.total_supply = supply.value],
                         <<>>)

burn(self, caller, amount) ==
    LET sender == caller
        sender_balance == balance_of(self, sender)
    IN  IF Less(sender_balance, amount)
        THEN Err(self, "InsufficientBalance")
        ELSE LET debit == sub_u32(sender_balance, amount)
                 supply == sub_u32(self.total_supply, amount)
             IN  IF debit.trap \/ supply.trap
                 THEN Trap(self)
                 ELSE Ok([self EXCEPT
                            !.balances = insert(self.balances, sender,
                                                debit.value),
                            !.total_supply = supply.value],
                         <<>>)

\* transfer_authority, were it to store the caller instead of new_owner
transfer_authority_StoresSender(self, caller, new_owner) ==
    LET sender == caller
    IN  IF sender # self.mint_authority
        THEN Err(self, "Unauthorized")
        ELSE Ok([self EXCEPT !.mint_authority = sender], <<>>)

\* transfer_authority, were it to skip the authority check
transfer_authority_Unchecked(self, caller, new_owner) ==
    Ok([self EXCEPT !.mint_authority = new_owner], <<>>)

transfer_authority(self, caller, new_owner) ==
    LET sender == caller
    IN  IF sender # self.mint_authority
        THEN Err(self, "Unauthorized")
        ELSE Ok([self EXCEPT !.mint_authority = new_owner], <<>>)

-----------------------------------------------------------------------------------------------------------------------------------------------------
(* The state machine *)

(* The runtime serializes the calls: a message runs to completion on the   *)
(* caller's identity and arguments, and its result goes back to the caller *)
(* (env_return) before the next call.                                      *)

Call(op, caller, sender, recipient, spender, new_owner, amount) ==
    [op |-> op, caller |-> caller, sender |-> sender, recipient |-> recipient,
     spender |-> spender, new_owner |-> new_owner, amount |-> amount,
     result |-> "none"]

NoCall == Call("none", NoAccount, NoAccount, NoAccount, NoAccount, NoAccount,
               Zero)

Idle == call = NoCall

Returned(op) == call.op = op

\* the calls the environment makes
Calls ==
    {Call("transfer", c, NoAccount, r, NoAccount, NoAccount, a) :
        c \in Accounts, r \in Accounts, a \in Amounts}
    \cup
    {Call("transfer_from_to", x[1], x[2], x[3], NoAccount, NoAccount, a) :
        x \in Accounts \X Accounts \X Accounts, a \in Amounts}
    \cup
    {Call("approve", c, NoAccount, NoAccount, s, NoAccount, a) :
        c \in Accounts, s \in Accounts, a \in Amounts}
    \cup
    {Call("transfer_from", x[1], x[2], x[3], NoAccount, NoAccount, a) :
        x \in Accounts \X Accounts \X Accounts, a \in Amounts}
    \cup
    {Call("mint", c, NoAccount, NoAccount, NoAccount, NoAccount, a) :
        c \in Accounts, a \in Amounts}
    \cup
    {Call("burn", c, NoAccount, NoAccount, NoAccount, NoAccount, a) :
        c \in Accounts, a \in Amounts}
    \cup
    {Call("transfer_authority", c, NoAccount, NoAccount, NoAccount, n, Zero) :
        c \in Accounts, n \in Accounts}

\* new_token(initial_supply), created by `caller`; the messages use nothing
\* of an AccountId but equality, so the creator is the tests' alice
Creators == {"alice"}

\* a small supply and the largest
InitialSupplies == {Num(0, 1), U32Max}

\* new_token, were it to leave total_supply at its default
new_token_SupplyUnset(caller, initial_supply) ==
    /\ balances = insert(<<>>, caller, initial_supply)
    /\ total_supply = Zero
    /\ mint_authority = caller
    /\ allowances = <<>>
    /\ events = <<Transfer(NoAccount, caller, initial_supply)>>
    /\ call = [Call("new_token", caller, NoAccount, NoAccount, NoAccount,
                    NoAccount, initial_supply) EXCEPT !.result = "Ok"]

new_token(caller, initial_supply) ==
    /\ balances = insert(<<>>, caller, initial_supply)
    /\ total_supply = initial_supply
    /\ mint_authority = caller
    /\ allowances = <<>>
    /\ events = <<Transfer(NoAccount, caller, initial_supply)>>
    /\ call = [Call("new_token", caller, NoAccount, NoAccount, NoAccount,
                    NoAccount, initial_supply) EXCEPT !.result = "Ok"]

Init ==
    /\ \E caller \in Creators, initial_supply \in InitialSupplies :
           new_token(caller, initial_supply)
    /\ overflow_checks \in BOOLEAN
    /\ calls = 0
    /\ approved = [p \in Accounts \X Accounts |-> Zero]
    /\ spent = [p \in Accounts \X Accounts |-> Zero]
    /\ handed_over = {}
    /\ dormant = FALSE

\* the result has reached the caller; the contract waits for the next call
env_return ==
    /\ ~Idle
    /\ call' = NoCall
    /\ events' = <<>>
    /\ UNCHANGED <<storage, overflow_checks, calls, approved, spent,
                   handed_over, dormant>>

\* the runtime stores what the message left and records call c and its result
Commit(c, outcome) ==
    /\ total_supply' = outcome.self.total_supply
    /\ balances' = outcome.self.balances
    /\ allowances' = outcome.self.allowances
    /\ mint_authority' = outcome.self.mint_authority
    /\ events' = outcome.events
    /\ call' = [c EXCEPT !.result = outcome.result]
    /\ calls' = calls + 1
    /\ approved' =
           IF c.op = "approve"
           THEN [approved EXCEPT ![<<c.caller, c.spender>>] = c.amount]
           ELSE approved
    /\ spent' =
           IF c.op = "approve"
           THEN [spent EXCEPT ![<<c.caller, c.spender>>] = Zero]
           ELSE IF c.op = "transfer_from" /\ outcome.result = "Ok"
           THEN [spent EXCEPT ![<<c.sender, c.caller>>] = Plus(@, c.amount)]
           ELSE spent
    /\ handed_over' =
           IF c.op = "transfer_authority" /\ outcome.result = "Ok"
           THEN handed_over \cup {c.caller}
           ELSE handed_over
    /\ dormant' =
           IF c.op = "transfer_authority" /\ outcome.result = "Ok"
           THEN TRUE
           ELSE IF c.caller = mint_authority
           THEN FALSE
           ELSE dormant
    /\ UNCHANGED overflow_checks

\* one call of each message, its inputs drawn from `inputs`
run_transfer(inputs) ==
    \E c \in inputs :
        /\ c.op = "transfer"
        /\ Commit(c, transfer(A1Token, c.caller, c.recipient, c.amount))

run_transfer_from_to(inputs) ==
    \E c \in inputs :
        /\ c.op = "transfer_from_to"
        /\ Commit(c, transfer_from_to(A1Token, c.sender, c.recipient,
                                      c.amount))

run_approve(inputs) ==
    \E c \in inputs :
        /\ c.op = "approve"
        /\ Commit(c, approve(A1Token, c.caller, c.spender, c.amount))

run_transfer_from(inputs) ==
    \E c \in inputs :
        /\ c.op = "transfer_from"
        /\ Commit(c, transfer_from(A1Token, c.caller, c.sender, c.recipient,
                                   c.amount))

run_mint(inputs) ==
    \E c \in inputs :
        /\ c.op = "mint"
        /\ Commit(c, mint(A1Token, c.caller, c.amount))

run_burn(inputs) ==
    \E c \in inputs :
        /\ c.op = "burn"
        /\ Commit(c, burn(A1Token, c.caller, c.amount))

run_transfer_authority(inputs) ==
    \E c \in inputs :
        /\ c.op = "transfer_authority"
        /\ Commit(c, transfer_authority(A1Token, c.caller, c.new_owner))

Ready == Idle /\ calls < MaxCalls

message_transfer == Ready /\ run_transfer(Calls)

message_transfer_from_to == Ready /\ run_transfer_from_to(Calls)

message_approve == Ready /\ run_approve(Calls)

message_transfer_from == Ready /\ run_transfer_from(Calls)

message_mint == Ready /\ run_mint(Calls)

message_burn == Ready /\ run_burn(Calls)

message_transfer_authority == Ready /\ run_transfer_authority(Calls)

Next ==
    \/ message_transfer
    \/ message_transfer_from_to
    \/ message_approve
    \/ message_transfer_from
    \/ message_mint
    \/ message_burn
    \/ message_transfer_authority
    \/ env_return

Spec == Init /\ [][Next]_vars

-----------------------------------------------------------------------------
(* Runs that overflow: a build without overflow checks, created with the    *)
(* full supply u32::MAX, and the calls that move, approve, mint and burn 1  *)
(* or u32::MAX and hand the authority over between two accounts.  Every     *)
(* behaviour of SpecOverflow is a behaviour of the contract.                *)

MaxOverflowCalls == 4

OverflowAccounts == {"alice", "bob"}

OverflowAmounts == {Num(0, 1), U32Max}

OverflowCalls ==
    {c \in Calls :
        /\ c.op \in {"transfer", "approve", "transfer_from", "mint", "burn",
                    "transfer_authority"}
        /\ {c.caller, c.sender, c.recipient, c.spender, c.new_owner}
               \subseteq OverflowAccounts \cup {NoAccount}
        /\ c.amount \in OverflowAmounts \cup {Zero}
        /\ c.amount = Zero => c.op = "transfer_authority"}

InitOverflow ==
    /\ new_token("alice", U32Max)
    /\ overflow_checks = FALSE
    /\ calls = 0
    /\ approved = [p \in Accounts \X Accounts |-> Zero]
    /\ spent = [p \in Accounts \X Accounts |-> Zero]
    /\ handed_over = {}
    /\ dormant = FALSE

ReadyOverflow == Idle /\ calls < MaxOverflowCalls

overflow_transfer == ReadyOverflow /\ run_transfer(OverflowCalls)

overflow_approve == ReadyOverflow /\ run_approve(OverflowCalls)

overflow_transfer_from == ReadyOverflow /\ run_transfer_from(OverflowCalls)

overflow_mint == ReadyOverflow /\ run_mint(OverflowCalls)

overflow_burn == ReadyOverflow /\ run_burn(OverflowCalls)

overflow_transfer_authority ==
    ReadyOverflow /\ run_transfer_authority(OverflowCalls)

NextOverflow ==
    \/ overflow_transfer
    \/ overflow_approve
    \/ overflow_transfer_from
    \/ overflow_mint
    \/ overflow_burn
    \/ overflow_transfer_authority
    \/ env_return

SpecOverflow == InitOverflow /\ [][NextOverflow]_vars

-----------------------------------------------------------------------------
(* Views of the state used by the properties *)

\* this step runs message op; call' holds its caller, arguments and result
Ran(op) == Idle /\ call'.op = op

RECURSIVE SumOver(_, _)
SumOver(m, keys) ==
    IF keys = {} THEN Zero
    ELSE LET k == CHOOSE x \in keys : TRUE
         IN  Plus(m[k], SumOver(m, keys \ {k}))

\* the sum of all stored balances, over the mathematical integers
SumOfBalances == SumOver(balances, DOMAIN balances)

BalanceOf(a) == balance_of(A1Token, a)

AllowanceOf(o, s) == allowance(A1Token, o, s)

\* the same, read after the step
BalanceAfter(a) == balance_of(A1Token', a)

AllowanceAfter(o, s) == allowance(A1Token', o, s)

BalancesUnchanged == \A a \in Accounts : BalanceAfter(a) = BalanceOf(a)

AllowancesUnchanged ==
    \A o \in Accounts, s \in Accounts : AllowanceAfter(o, s) = AllowanceOf(o, s)

-----------------------------------------------------------------------------
(* Properties *)

\* C1. Conservation: in every reachable state total_supply equals the sum of
\* the balances of all accounts.
Conservation == total_supply = SumOfBalances

\* C2. Debits are authorized: a step that decreases the balance of account a
\* is a call by a itself, or a transfer_from from a whose caller held an
\* allowance from a of at least the amount.
DebitsAuthorized ==
    [][\A a \in Accounts :
          Less(BalanceAfter(a), BalanceOf(a)) =>
              \/ call'.caller = a
              \/ /\ call'.op = "transfer_from"
                 /\ call'.sender = a
                 /\ Leq(call'.amount, AllowanceOf(a, call'.caller))]_vars

\* C3. Failure atomicity: a message that returns InsufficientBalance,
\* InsufficientAllowance or Unauthorized leaves total_supply, balances,
\* allowances and mint_authority as they were before the call.
FailureAtomicity ==
    [][call'.result \in Errors => UNCHANGED storage]_vars

\* a transfer_from passed the allowance check and failed the balance check
FailureAtomicityWitness ==
    /\ Returned("transfer_from")
    /\ call.result = "InsufficientBalance"
    /\ call.amount # Zero

\* C4. Authority gating: mint and transfer_authority return Unauthorized to
\* every caller but the current mint_authority, and success to the current
\* mint_authority, whatever the amount or the new authority.
AuthorityGating ==
    [][Ran("mint") \/ Ran("transfer_authority") =>
          call'.result = IF call'.caller = mint_authority
                         THEN "Ok" ELSE "Unauthorized"]_vars

\* C5, as stated. Once an account's transfer_authority succeeded, every later
\* mint and transfer_authority it calls returns Unauthorized.
OldAuthorityNeverAuthorizedAgain ==
    [][/\ Ran("mint") \/ Ran("transfer_authority")
       /\ call'.caller \in handed_over
       => call'.result = "Unauthorized"]_vars

\* C5, amended. A successful transfer_authority(new) by old with new # old
\* leaves old unauthorized at once; an account becomes the authority only by
\* a successful transfer_authority naming it; and while an account that handed
\* the authority over is not the authority, its mint and transfer_authority
\* calls return Unauthorized.
OldAuthorityUnauthorizedUntilHandedBack ==
    [][/\ /\ Ran("transfer_authority")
          /\ call'.result = "Ok"
          /\ call'.new_owner # call'.caller
          => mint_authority' # call'.caller
       /\ \A a \in Accounts :
              mint_authority # a /\ mint_authority' = a
              => /\ Ran("transfer_authority")
                 /\ call'.result = "Ok"
                 /\ call'.new_owner = a
       /\ /\ Ran("mint") \/ Ran("transfer_authority")
          /\ call'.caller \in handed_over
          /\ call'.caller # mint_authority
          => call'.result = "Unauthorized"]_vars

\* an account that handed the authority over called mint and was refused
OldAuthorityWitness ==
    /\ Returned("mint")
    /\ call.caller \in handed_over
    /\ call.caller # mint_authority
    /\ call.result = "Unauthorized"

\* C6. transfer_from returns InsufficientAllowance when the caller's
\* allowance from sender is below the amount, whatever sender's balance;
\* InsufficientBalance when the allowance suffices and sender's balance is
\* below the amount; success otherwise.
TransferFromResult ==
    [][Ran("transfer_from") =>
          call'.result =
              IF Less(AllowanceOf(call'.sender, call'.caller), call'.amount)
              THEN "InsufficientAllowance"
              ELSE IF Less(BalanceOf(call'.sender), call'.amount)
              THEN "InsufficientBalance"
              ELSE "Ok"]_vars

\* allowance and balance were both too small: the allowance error came back
TransferFromResultWitness ==
    /\ Returned("transfer_from")
    /\ call.result = "InsufficientAllowance"
    /\ AllowanceOf(call.sender, call.caller) # Zero
    /\ Less(BalanceOf(call.sender), call.amount)

\* C7. Allowance consumption: a successful transfer_from of A by caller c
\* with allowance L from sender leaves that allowance at L - A, takes A from
\* sender's balance and adds A to recipient's (sender's balance is back where
\* it was when sender is the recipient), and changes no other allowance; when
\* the balance check fails the allowance stays L.
AllowanceConsumption ==
    [][Ran("transfer_from") =>
          LET s == call'.sender
              r == call'.recipient
              c == call'.caller
              A == call'.amount
          IN  /\ call'.result = "Ok" =>
                    /\ Plus(AllowanceAfter(s, c), A) = AllowanceOf(s, c)
                    /\ IF s = r
                       THEN BalanceAfter(s) = BalanceOf(s)
                       ELSE /\ Plus(BalanceAfter(s), A) = BalanceOf(s)
                            /\ BalanceAfter(r) = Plus(BalanceOf(r), A)
                    /\ \A o \in Accounts, p \in Accounts :
                           <<o, p>> # <<s, c>>
                           => AllowanceAfter(o, p) = AllowanceOf(o, p)
              /\ call'.result = "InsufficientBalance" =>
                    AllowanceAfter(s, c) = AllowanceOf(s, c)]_vars

TransferEffect ==
    [][Ran("transfer") =>
          LET c == call'.caller
              r == call'.recipient
              A == call'.amount
          IN  /\ call'.result = IF Less(BalanceOf(c), A)
                                THEN "InsufficientBalance" ELSE "Ok"
              /\ call'.result = "Ok" =>
                    /\ r # c => /\ Plus(BalanceAfter(c), A) = BalanceOf(c)
                                /\ BalanceAfter(r) = Plus(BalanceOf(r), A)
                    /\ \A a \in Accounts \ {c, r} :
                           BalanceAfter(a) = BalanceOf(a)
                    /\ AllowancesUnchanged
                    /\ total_supply' = total_supply
                    /\ mint_authority' = mint_authority]_vars

\* C10. approve always succeeds and sets the caller's allowance for spender
\* to exactly the amount, replacing the previous value; no other allowance,
\* no balance, total_supply and mint_authority change.
ApproveOverwrites ==
    [][Ran("approve") =>
          /\ call'.result = "Ok"
          /\ AllowanceAfter(call'.caller, call'.spender) = call'.amount
          /\ \A o \in Accounts, s \in Accounts :
                 <<o, s>> # <<call'.caller, call'.spender>>
                 => AllowanceAfter(o, s) = AllowanceOf(o, s)
          /\ BalancesUnchanged
          /\ total_supply' = total_supply
          /\ mint_authority' = mint_authority]_vars

\* approve(s, X), X # 0, has run and the caller can approve s again
ApproveOverwritesWitness ==
    /\ Returned("approve")
    /\ call.result = "Ok"
    /\ AllowanceOf(call.caller, call.spender) = call.amount
    /\ call.amount # Zero
    /\ calls < MaxCalls

\* C11. Supply changes are authorized: total_supply increases only in a
\* successful mint called by the current mint_authority, and decreases only
\* in a successful burn by an account whose balance was at least the amount;
\* every other step leaves it unchanged.
SupplyChangesAuthorized ==
    [][/\ Less(total_supply, total_supply')
          => /\ Ran("mint")
             /\ call'.result = "Ok"
             /\ call'.caller = mint_authority
       /\ Less(total_supply', total_supply)
          => /\ Ran("burn")
             /\ call'.result = "Ok"
             /\ Leq(call'.amount, BalanceOf(call'.caller))]_vars

\* C12. A successful mint credits only the caller's own balance: the balance
\* of every other account, every allowance and mint_authority are unchanged.
MintCreditsOnlyCaller ==
    [][Ran("mint") /\ call'.result = "Ok" =>
          /\ call'.caller = mint_authority
          /\ \A a \in Accounts \ {call'.caller} :
                 BalanceAfter(a) = BalanceOf(a)
          /\ AllowancesUnchanged
          /\ mint_authority' = mint_authority]_vars

\* the authority minted while another account held a balance
MintCreditsOnlyCallerWitness ==
    /\ Returned("mint")
    /\ call.result = "Ok"
    /\ call.amount # Zero
    /\ \E a \in Accounts \ {call.caller} : BalanceOf(a) # Zero

\* C14. Mint exactness: every mint called by the current authority returns
\* success, and afterwards total_supply and the authority's balance are their
\* previous values plus the amount over the mathematical integers.
MintExact ==
    [][Ran("mint") /\ call'.caller = mint_authority =>
          /\ call'.result = "Ok"
          /\ total_supply' = Plus(total_supply, call'.amount)
          /\ BalanceAfter(call'.caller) =
                 Plus(BalanceOf(call'.caller), call'.amount)]_vars

\* C15. Notifications: a successful transfer, transfer_from_to and
\* transfer_from emits exactly one Transfer(sender, recipient, amount), also
\* for amount 0 and for sender = recipient; approve emits exactly one
\* Approval(owner, spender, amount); mint, burn and transfer_authority emit
\* nothing; a call that returns an error emits nothing.
NotificationsCoupled ==
    [][/\ call'.result \in Errors => events' = <<>>
       /\ call'.result = "Ok" /\ Idle =>
              events' =
                  CASE call'.op = "transfer" ->
                           <<Transfer(call'.caller, call'.recipient,
                                      call'.amount)>>
                    [] call'.op \in {"transfer_from_to", "transfer_from"} ->
                           <<Transfer(call'.sender, call'.recipient,
                                      call'.amount)>>
                    [] call'.op = "approve" ->
                           <<Approval(call'.caller, call'.spender,
                                      call'.amount)>>
                    [] OTHER -> <<>>]_vars

\* a transfer of 0 to the caller itself succeeded and emitted its Transfer
NotificationsCoupledWitness ==
    /\ Returned("transfer")
    /\ call.result = "Ok"
    /\ call.amount = Zero
    /\ call.recipient = call.caller
    /\ Len(events) = 1

\* C16. Construction: right after new_token(initial_supply) by initiator I,
\* total_supply and the balance of I are initial_supply, every other balance
\* and every allowance is 0, mint_authority is I, and exactly one notification
\* Transfer(None, Some(I), initial_supply) has been emitted.
Construction ==
    Returned("new_token") =>
        /\ total_supply = call.amount
        /\ BalanceOf(call.caller) = call.amount
        /\ \A a \in Accounts \ {call.caller} : BalanceOf(a) = Zero
        /\ \A o \in Accounts, s \in Accounts : AllowanceOf(o, s) = Zero
        /\ mint_authority = call.caller
        /\ events = <<Transfer(NoAccount, call.caller, call.amount)>>

\* the contract has just been created with a supply other than 0
ConstructionWitness ==
    /\ Returned("new_token")
    /\ call.amount # Zero
    /\ calls = 0

\* C18. Self-transfer and zero-amount transfer are no-ops on the state: a
\* transfer to the caller itself of at most its balance, or of 0 to anyone,
\* returns success and leaves every balance, every allowance, total_supply
\* and mint_authority unchanged; a self-transfer of more than the caller's
\* balance fails with InsufficientBalance.
SelfAndZeroTransferNoOp ==
    [][Ran("transfer") =>
          LET c == call'.caller
              r == call'.recipient
              A == call'.amount
          IN  /\ \/ r = c /\ Leq(A, BalanceOf(c))
                 \/ A = Zero
                 => /\ call'.result = "Ok"
                    /\ BalancesUnchanged
                    /\ AllowancesUnchanged
                    /\ total_supply' = total_supply
                    /\ mint_authority' = mint_authority
              /\ r = c /\ Less(BalanceOf(c), A)
                 => call'.result = "InsufficientBalance"]_vars

\* an account transferred a non-zero amount to itself
SelfAndZeroTransferNoOpWitness ==
    /\ Returned("transfer")
    /\ call.result = "Ok"
    /\ call.recipient = call.caller
    /\ call.amount # Zero

\* C20. Single authority, changed only by hand-over: mint_authority is always
\* one account; new_token sets it to the initiator; a step changes it only if
\* it is a successful transfer_authority(new) called by the current
\* authority, after which it is new.
SingleAuthority ==
    [][/\ Returned("new_token") => mint_authority = call.caller
       /\ mint_authority \in Accounts
       /\ mint_authority' \in Accounts
       /\ mint_authority' # mint_authority
          => /\ Ran("transfer_authority")
             /\ call'.result = "Ok"
             /\ call'.caller = mint_authority
       /\ Ran("transfer_authority") /\ call'.result = "Ok"
          => mint_authority' = call'.new_owner]_vars

\* the authority handed over to another account
SingleAuthorityWitness ==
    /\ Returned("transfer_authority")
    /\ call.result = "Ok"
    /\ call.new_owner # call.caller
    /\ mint_authority = call.new_owner

\* C13. Burn is self-service and exact: burn(amount) by any caller c fails
\* with InsufficientBalance exactly when the balance of c is below the amount;
\* otherwise it succeeds, the balance of c and total_supply each go down by
\* exactly the amount, and every other balance, every allowance and
\* mint_authority are unchanged.
BurnExact ==
    [][Ran("burn") =>
          LET c == call'.caller
              A == call'.amount
          IN  /\ call'.result = "InsufficientBalance" <=> Less(BalanceOf(c), A)
              /\ Leq(A, BalanceOf(c)) =>
                    /\ call'.result = "Ok"
                    /\ Plus(BalanceAfter(c), A) = BalanceOf(c)
                    /\ Plus(total_supply', A) = total_supply
                    /\ \A a \in Accounts \ {c} : BalanceAfter(a) = BalanceOf(a)
                    /\ AllowancesUnchanged
                    /\ mint_authority' = mint_authority]_vars

\* C17. Authority lock-out: once transfer_authority has set mint_authority to
\* an account that issues no call afterwards, mint_authority stays that
\* account, every mint and transfer_authority returns Unauthorized, and
\* total_supply never increases.
AuthorityLockOut ==
    [][dormant /\ Idle /\ ~Idle' /\ call'.caller # mint_authority =>
          /\ mint_authority' = mint_authority
          /\ call'.op \in {"mint", "transfer_authority"}
             => call'.result = "Unauthorized"
          /\ ~Less(total_supply, total_supply')]_vars

\* C19. No arithmetic leaves the u32 range on the transfer, delegated-transfer
\* and burn paths: once the checks of the call have passed, the recipient's
\* balance plus the amount is at most 2^32 - 1, and the sender's balance, the
\* allowance and total_supply are each at least the amount subtracted.
TransferAndBurnInRange ==
    [][LET A == call'.amount
           r == call'.recipient
           S == IF call'.op = "transfer" THEN call'.caller ELSE call'.sender
           allowed == call'.op = "transfer_from"
                          => Leq(A, AllowanceOf(S, call'.caller))
       IN  /\ /\ \/ Ran("transfer")
                 \/ Ran("transfer_from_to")
                 \/ Ran("transfer_from")
              /\ allowed
              /\ Leq(A, BalanceOf(S))
              => FitsU32(Plus(IF r = S THEN Minus(BalanceOf(S), A)
                                       ELSE BalanceOf(r), A))
           /\ Ran("burn") /\ Leq(A, BalanceOf(call'.caller))
              => Leq(A, total_supply)]_vars

====
